---- MODULE Spec2Model ----
(***************************************************************************)
(* YiThume order pipeline: the localStorage-backed order / driver / batch  *)
(* / payout collections and the operations of window.YiThumeLitePro.       *)
(*                                                                         *)
(* The repository holds two builds of the same script, which differ in a   *)
(* few places; the variable build selects the one that is loaded:          *)
(*   "pro"  - src/yithume-lite-pro.js  (admin login, approveOrder,         *)
(*            autoAssign takes approved or paid orders, makeWhatsAppLink   *)
(*            stores payload.initialStatus, default 'pending')             *)
(*   "lite" - src/unnamed/part_000     (no approveOrder, autoAssign takes  *)
(*            paid orders only, makeWhatsAppLink stores 'awaiting_payment')*)
(*                                                                         *)
(* Every operation is one synchronous JavaScript call (load, mutate, save, *)
(* return), so it is one atomic action.  Date.now() is the variable now;   *)
(* it advances only by the action Tick, so two calls may read the same     *)
(* millisecond.  Math.random() is a nondeterministic choice.               *)
(*                                                                         *)
(* localStorage is shared by every tab of the origin.  SpecTabs runs       *)
(* autoAssign and completeBatch one store access at a time in two tabs;    *)
(* SpecStore lets stored text be replaced by text that does not parse.     *)
(*                                                                         *)
(* Fields no operation ever reads back (items, itemsText, total, eta,      *)
(* payment_choice, name, phone, created_at, paid_at, approved_at, ref) are *)
(* left out of the records.                                                *)
(***************************************************************************)
EXTENDS Integers, Sequences, FiniteSets, TLC

VARIABLES build, now, orders, drivers, batches, payouts, call, ret,
          ceN, ceFee, ceOut, wlDate, wlOut, unparseable, tabs

vars == <<build, now, orders, drivers, batches, payouts, call, ret,
          ceN, ceFee, ceOut, wlDate, wlOut, unparseable, tabs>>

\* what the steps of the order pipeline leave alone: the arguments and
\* results of the functions that are looked at on their own
aside == <<ceN, ceFee, ceOut, wlDate, wlOut>>

store == <<orders, drivers, batches, payouts>>

(***************************** bounds **************************************)
MaxClock == 1
MaxOrders == 2
MaxDrivers == 1
MaxBatches == 2
MaxPayouts == 1
MoreDrivers == 2
MorePayouts == 2
RandRange == 2
WeekLen == 1
MaxN == 4
MaxFee == 100
\* the reference dates looked at: 1 January 2018 and the seven years after
FirstDay == 17532
LastDay == 20100

(***************************** constants ***********************************)
\* slice(-6) of the decimal clock: the last six digits
SuffixModulus == 1000000
\* CONFIG.DRIVER_SHARE_FIRST = 1.00 and CONFIG.DRIVER_SHARE_NEXT = 0.40,
\* held as exact hundredths
DRIVER_SHARE_FIRST == 100
DRIVER_SHARE_NEXT == 40

Builds == {"pro", "lite"}
Zones == {"A", "B"}
\* the carts submitted: zone, raw delivery address (a sequence of characters),
\* base delivery fee and rush fee.  The first two share a cluster (the address
\* differs in capitalisation and whitespace only) and differ in their fee.
Payloads ==
  { [zone |-> "A", address |-> <<"E">>,      baseFee |-> 13, rushFee |-> 0],
    [zone |-> "A", address |-> <<"e", " ">>, baseFee |-> 13, rushFee |-> 30],
    [zone |-> "A", address |-> <<>>,         baseFee |-> 13, rushFee |-> 0],
    [zone |-> "B", address |-> <<>>,         baseFee |-> 0,  rushFee |-> 0] }
\* payload.initialStatus values a caller of the pro build passes
InitialStatuses == {"pending", "paid"}

NoBatch == <<>>
NoTime == -1
NoId == -1

\* What the last call returned: ok is a boolean result (TRUE for a call that
\* returns no boolean), list the batches or payouts returned, id the
\* identifier returned.  call.arg holds the call's identifier or date, as a
\* tuple of numbers.
Returned(ok, list, id) == [ok |-> ok, list |-> list, id |-> id]
NoDriver == [id |-> -1, zone |-> "", is_active |-> FALSE]

(***************************** utilities ***********************************)
\* Date.now().toString().slice(-6)
Suffix(t) == t % SuffixModulus

\* uuid(): "YI-" + suffix
uuid(t) == Suffix(t)

\* Array.prototype.findIndex: the first of the indices that satisfy the
\* test (hits), 0 when there is none
FindIndex(hits) ==
  IF hits = {} THEN 0 ELSE CHOOSE i \in hits : \A j \in hits : i <= j

\* faulty variant of Round: the fraction is cut off (Math.floor for Math.round)
RoundTruncates(num, den) == num \div den

\* Math.round of the rational num/den (den > 0): floor(x + 1/2), round half up
Round(num, den) == (2 * num + den) \div (2 * den)

(***************************** the store ***********************************)
\* KEYS: the collections kept in localStorage
KEYS == {"orders", "drivers", "batches", "payouts"}

\* JSON.parse of the text stored under key k, when it parses
Stored(k) ==
  CASE k = "orders" -> orders
    [] k = "drivers" -> drivers
    [] k = "batches" -> batches
    [] OTHER -> payouts

\* faulty variant of load: no fallback, whatever was last stored is used
loadStale(k, f) == Stored(k)

\* load(k, f): the parsed text, or the fallback f when JSON.parse throws.
\* While k is in unparseable, the collection's variable keeps the value last
\* saved, which nothing reads.
load(k, f) == IF k \in unparseable THEN f ELSE Stored(k)

\* save(k, v) writes well-formed text: the keys saved parse again
Saved(keys) == unparseable' = unparseable \ keys

(***************************** Math.random *********************************)
\* Math.floor(Math.random()*100) in an identifier.  Identifiers are only ever
\* compared for equality, so a draw is either one already in use with the
\* same clock suffix or a fresh one, and all fresh ones are interchangeable:
\* the draws are taken in the order 0, 1, 2, ... of their first use.
UsedDraws(coll) ==
  {coll[i].id[2] : i \in {j \in DOMAIN coll : coll[j].id[1] = Suffix(now)}}

FreshDraw(used) ==
  IF used = {} THEN 0
  ELSE (CHOOSE m \in used : \A x \in used : x <= m) + 1

Draws(n, coll) ==
  {rnds \in [1..n -> 0..(RandRange - 1)] :
     \A i \in 1..n :
       rnds[i] <= FreshDraw(UsedDraws(coll) \cup {rnds[j] : j \in 1..(i - 1)})}

(***************************** clusterKey **********************************)
IsSpace(c) == c = " "

\* String.prototype.toLowerCase, per character
LowerChar(c) == IF c = "E" THEN "e" ELSE c

RECURSIVE ToLowerCase(_)
ToLowerCase(s) ==
  IF s = <<>> THEN <<>> ELSE <<LowerChar(Head(s))>> \o ToLowerCase(Tail(s))

\* replace(/\s+/g, " "): every run of whitespace becomes one space
RECURSIVE CollapseSpaces(_)
CollapseSpaces(s) ==
  IF s = <<>> THEN <<>>
  ELSE IF IsSpace(Head(s))
       THEN IF Len(s) > 1 /\ IsSpace(s[2])
            THEN CollapseSpaces(Tail(s))
            ELSE <<" ">> \o CollapseSpaces(Tail(s))
       ELSE <<Head(s)>> \o CollapseSpaces(Tail(s))

RECURSIVE TrimLeft(_)
TrimLeft(s) ==
  IF s # <<>> /\ IsSpace(Head(s)) THEN TrimLeft(Tail(s)) ELSE s

RECURSIVE TrimRight(_)
TrimRight(s) ==
  IF s # <<>> /\ IsSpace(s[Len(s)])
  THEN TrimRight(SubSeq(s, 1, Len(s) - 1)) ELSE s

\* String.prototype.trim
Trim(s) == TrimRight(TrimLeft(s))

NormalizeAddress(addr) == Trim(CollapseSpaces(ToLowerCase(addr)))

ZoneOnly == <<"z", "o", "n", "e", "-", "o", "n", "l", "y">>

\* `${zone}::${a}` or `${zone}::zone-only`, held as the pair <<zone, a>>
clusterKey(order) ==
  LET a == NormalizeAddress(order.address)
  IN  IF a # <<>> THEN <<order.zone, a>> ELSE <<order.zone, ZoneOnly>>

(***************************** drivers *************************************)
\* faulty variant of pickDriverForZone: no fallback to the first driver
pickDriverForZoneStrict(zone) ==
  LET ds == load("drivers", <<>>)
      i == FindIndex({j \in DOMAIN ds : ds[j].zone = zone /\ ds[j].is_active})
  IN  IF i > 0 THEN ds[i] ELSE NoDriver

pickDriverForZone(zone) ==
  LET ds == load("drivers", <<>>)
      i == FindIndex({j \in DOMAIN ds : ds[j].zone = zone /\ ds[j].is_active})
  IN  IF i > 0 THEN ds[i]
      ELSE IF ds # <<>> THEN ds[1]
      ELSE NoDriver

(***************************** earnings ************************************)
\* faulty variant of computeClusterEarnings: the platform margin is cut off from the
\* unrounded split instead of being what is left of the rounded driver share
computeClusterEarningsSplit(n, feeEach) ==
  LET first == feeEach * DRIVER_SHARE_FIRST
      rest == (IF n - 1 > 0 THEN n - 1 ELSE 0) * feeEach * DRIVER_SHARE_NEXT
  IN  [driverTotal |-> Round(first + rest, 100),
       platformDeliveryMargin |-> (n * feeEach * 100 - (first + rest)) \div 100]

computeClusterEarnings(n, feeEach) ==
  LET first == feeEach * DRIVER_SHARE_FIRST
      rest == (IF n - 1 > 0 THEN n - 1 ELSE 0) * feeEach * DRIVER_SHARE_NEXT
      driverTotal == Round(first + rest, 100)
      allFees == n * feeEach
      platformDeliveryMargin == Round(allFees - driverTotal, 1)
  IN  [driverTotal |-> driverTotal,
       platformDeliveryMargin |-> platformDeliveryMargin]

(***************************** autoAssign **********************************)
feeOf(o) == o.baseFee + o.rushFee

\* faulty variant of Eligible: the status test is forgotten
EligibleAnyStatus(o) == o.assigned_batch_id = NoBatch

\* the filter of autoAssign: pro line 176, lite line 162
Eligible(o) ==
  /\ IF build = "pro" THEN o.status \in {"approved", "paid"}
                      ELSE o.status = "paid"
  /\ o.assigned_batch_id = NoBatch

Candidates(ords) == SelectSeq(ords, Eligible)

\* Object.keys(byKey): the cluster keys in the order of their first candidate
RECURSIVE GroupKeys(_, _)
GroupKeys(cands, seen) ==
  IF cands = <<>> THEN seen
  ELSE LET k == clusterKey(Head(cands))
       IN  GroupKeys(Tail(cands),
                     IF \E i \in DOMAIN seen : seen[i] = k
                     THEN seen ELSE Append(seen, k))

\* byKey[k]: the candidates of cluster k, in collection order
Group(cands, k) == SelectSeq(cands, LAMBDA o : clusterKey(o) = k)

\* the loop of pro lines 209-215: each order of the group is looked up by its
\* identifier (the first stored order carrying it) and marked
RECURSIVE MarkAssigned(_, _, _)
MarkAssigned(ords, ids, batchId) ==
  IF ids = <<>> THEN ords
  ELSE LET idx == FindIndex({j \in DOMAIN ords : ords[j].orderId = Head(ids)})
           next == IF idx > 0
                   THEN [ords EXCEPT ![idx].status = "assigned",
                                     ![idx].assigned_batch_id = batchId]
                   ELSE ords
       IN  MarkAssigned(next, Tail(ids), batchId)

\* the batch record of pro lines 196-207
NewBatch(k, group, driver, rnd) ==
  LET feeEach == feeOf(group[1])
      e == computeClusterEarnings(Len(group), feeEach)
  IN  [id |-> <<Suffix(now), rnd>>,
       zone |-> group[1].zone,
       cluster_key |-> k,
       driver |-> driver,
       orders |-> [i \in DOMAIN group |-> group[i].orderId],
       delivery_fee_each |-> feeEach,
       driver_earnings |-> e.driverTotal,
       platform_delivery_margin |-> e.platformDeliveryMargin,
       status |-> "assigned",
       started_at |-> now,
       completed_at |-> NoTime]

\* the loop over Object.keys(byKey): st = [orders, batches, created];
\* rnds[i] is the Math.random() draw of the i-th key
RECURSIVE AssignLoop(_, _, _, _, _)
AssignLoop(keys, i, cands, rnds, st) ==
  IF i > Len(keys) THEN st
  ELSE LET k == keys[i]
           group == Group(cands, k)
           driver == pickDriverForZone(group[1].zone)
       IN  IF driver = NoDriver
           THEN AssignLoop(keys, i + 1, cands, rnds, st)
           ELSE LET batch == NewBatch(k, group, driver, rnds[i])
                IN  AssignLoop(keys, i + 1, cands, rnds,
                      [orders |-> MarkAssigned(st.orders, batch.orders, batch.id),
                       batches |-> Append(st.batches, batch),
                       created |-> Append(st.created, batch)])

AutoAssign ==
  /\ \E ords \in {load("orders", <<>>)}, bats \in {load("batches", <<>>)} :
     \E cands \in {Candidates(ords)} :
     \E keys \in {GroupKeys(cands, <<>>)} :
     \E rnds \in Draws(Len(keys), bats) :
     \E st \in {AssignLoop(keys, 1, cands, rnds,
                  [orders |-> ords, batches |-> bats, created |-> <<>>])} :
       /\ orders' = st.orders
       /\ batches' = st.batches
       /\ ret' = Returned(TRUE, st.created, NoId)
  /\ Saved({"orders", "batches"})
  /\ call' = [op |-> "autoAssign", arg |-> <<>>]
  /\ UNCHANGED <<build, now, drivers, payouts, aside, tabs>>

(***************************** orders **************************************)
NewOrder(zone, address, baseFee, rushFee, status) ==
  [orderId |-> uuid(now), zone |-> zone, address |-> address,
   baseFee |-> baseFee, rushFee |-> rushFee, status |-> status,
   assigned_batch_id |-> NoBatch]

\* faulty variant of StoredStatus: the lite build's literal in both builds
StoredStatusLiteral(initialStatus) == "awaiting_payment"

\* the status makeWhatsAppLink stores: payload.initialStatus in the pro build
\* (line 122), the literal 'awaiting_payment' in the lite build (line 112)
StoredStatus(initialStatus) ==
  IF build = "pro" THEN initialStatus ELSE "awaiting_payment"

MakeWhatsAppLink(zone, address, baseFee, rushFee, initialStatus) ==
  /\ orders' = Append(load("orders", <<>>),
                      NewOrder(zone, address, baseFee, rushFee,
                               StoredStatus(initialStatus)))
  /\ Saved({"orders"})
  /\ call' = [op |-> "makeWhatsAppLink", arg |-> <<>>]
  /\ ret' = Returned(TRUE, <<>>, uuid(now))
  /\ UNCHANGED <<build, now, drivers, batches, payouts, aside, tabs>>

\* approveOrder / markOrderPaid: the first order carrying orderId gets status
SetOrderStatus(ords, orderId, status) ==
  LET i == FindIndex({j \in DOMAIN ords : ords[j].orderId = orderId})
  IN  IF i > 0 THEN [ords EXCEPT ![i].status = status] ELSE ords

HasOrder(ords, orderId) == \E i \in DOMAIN ords : ords[i].orderId = orderId

ApproveOrder(orderId) ==
  /\ build = "pro"
  /\ LET ords == load("orders", <<>>)
     IN  /\ IF HasOrder(ords, orderId)
            THEN /\ orders' = SetOrderStatus(ords, orderId, "approved")
                 /\ Saved({"orders"})
            ELSE UNCHANGED <<orders, unparseable>>
         /\ ret' = Returned(HasOrder(ords, orderId), <<>>, NoId)
  /\ call' = [op |-> "approveOrder", arg |-> <<orderId>>]
  /\ UNCHANGED <<build, now, drivers, batches, payouts, aside, tabs>>

MarkOrderPaid(orderId) ==
  /\ LET ords == load("orders", <<>>)
     IN  /\ IF HasOrder(ords, orderId)
            THEN /\ orders' = SetOrderStatus(ords, orderId, "paid")
                 /\ Saved({"orders"})
            ELSE UNCHANGED <<orders, unparseable>>
         /\ ret' = Returned(HasOrder(ords, orderId), <<>>, NoId)
  /\ call' = [op |-> "markOrderPaid", arg |-> <<orderId>>]
  /\ UNCHANGED <<build, now, drivers, batches, payouts, aside, tabs>>

(***************************** drivers *************************************)
\* addDriver (lite), the admin panel's "drivers" button and the sign-up form
AddDriver(zone) ==
  /\ drivers' = Append(load("drivers", <<>>),
                       [id |-> Suffix(now), zone |-> zone, is_active |-> TRUE])
  /\ Saved({"drivers"})
  /\ call' = [op |-> "addDriver", arg |-> <<>>]
  /\ ret' = Returned(TRUE, <<>>, Suffix(now))
  /\ UNCHANGED <<build, now, orders, batches, payouts, aside, tabs>>

(***************************** completeBatch *******************************)
\* faulty variant of MarkDelivered: every stored order is marked, listed or not
MarkDeliveredAll(ords, ids) ==
  [i \in DOMAIN ords |-> [ords[i] EXCEPT !.status = "delivered"]]

\* the loop of pro lines 233-236
RECURSIVE MarkDelivered(_, _)
MarkDelivered(ords, ids) ==
  IF ids = <<>> THEN ords
  ELSE MarkDelivered(SetOrderStatus(ords, Head(ids), "delivered"), Tail(ids))

\* faulty variant of BatchIndex: the -1 of a failed findIndex is used as an index
\* from the end (batches.at(bIdx)), so an absent identifier hits the last batch
BatchIndexFromEnd(bats, batchId) ==
  IF \E i \in DOMAIN bats : bats[i].id = batchId
  THEN FindIndex({j \in DOMAIN bats : bats[j].id = batchId})
  ELSE Len(bats)

BatchIndex(bats, batchId) == FindIndex({j \in DOMAIN bats : bats[j].id = batchId})

\* faulty variant of Completed: the status is toggled
CompletedToggles(b) ==
  [b EXCEPT !.status = IF b.status = "completed" THEN "assigned" ELSE "completed",
            !.completed_at = now]

\* faulty variant of Completed: the driver is resolved again on completion
CompletedResolvesDriver(b) ==
  [b EXCEPT !.status = "completed", !.completed_at = now,
            !.driver = pickDriverForZone(b.zone)]

\* pro lines 237-238
Completed(b) == [b EXCEPT !.status = "completed", !.completed_at = now]

CompleteBatch(batchId) ==
  LET ords == load("orders", <<>>)
      bats == load("batches", <<>>)
      bIdx == BatchIndex(bats, batchId)
  IN  /\ call' = [op |-> "completeBatch", arg |-> batchId]
      /\ IF bIdx = 0
         THEN /\ ret' = Returned(FALSE, <<>>, NoId)
              /\ UNCHANGED <<orders, batches, unparseable>>
         ELSE /\ orders' = MarkDelivered(ords, bats[bIdx].orders)
              /\ batches' = [bats EXCEPT ![bIdx] = Completed(bats[bIdx])]
              /\ Saved({"orders", "batches"})
              /\ ret' = Returned(TRUE, <<>>, NoId)
      /\ UNCHANGED <<build, now, drivers, payouts, aside, tabs>>

(***************************** payouts *************************************)
\* startOfMonday / endOfSunday: the clock counts from a Monday 00:00:00.000
\* and a week is WeekLen ticks long
startOfMonday(d) == WeekLen * (d \div WeekLen)
endOfSunday(monday) == monday + WeekLen - 1

\* weekLabel(monday): the label of the week that starts at monday
weekLabel(monday) == monday \div WeekLen

\* faulty variant of InRange: the week is not looked at
InRangeAnyWeek(b, monday, sunday) == b.status = "completed"

InRange(b, monday, sunday) ==
  /\ b.status = "completed"
  /\ b.completed_at >= monday
  /\ b.completed_at <= sunday

\* faulty variant of DriverKeys: a driver that a stored payout names is left out
RECURSIVE DriverKeysUnpaid(_, _)
DriverKeysUnpaid(bats, seen) ==
  IF bats = <<>> THEN seen
  ELSE LET id == Head(bats).driver.id
       IN  DriverKeysUnpaid(Tail(bats),
             IF \/ \E i \in DOMAIN seen : seen[i] = id
                \/ \E p \in DOMAIN payouts : payouts[p].driver.id = id
             THEN seen ELSE Append(seen, id))

\* Object.keys(grouped): driver identifiers in the order of their first batch
RECURSIVE DriverKeys(_, _)
DriverKeys(bats, seen) ==
  IF bats = <<>> THEN seen
  ELSE LET id == Head(bats).driver.id
       IN  DriverKeys(Tail(bats),
                      IF \E i \in DOMAIN seen : seen[i] = id
                      THEN seen ELSE Append(seen, id))

RECURSIVE SumEarnings(_)
SumEarnings(bats) ==
  IF bats = <<>> THEN 0
  ELSE Head(bats).driver_earnings + SumEarnings(Tail(bats))

RECURSIVE SumOrders(_)
SumOrders(bats) ==
  IF bats = <<>> THEN 0 ELSE Len(Head(bats).orders) + SumOrders(Tail(bats))

\* the payout record of pro lines 271-283 for driver identifier id
NewPayout(id, inRange, monday, sunday, rnd) ==
  LET mine == SelectSeq(inRange, LAMBDA b : b.driver.id = id)
  IN  [id |-> <<Suffix(now), rnd>>,
       week_label |-> weekLabel(monday),
       from |-> monday,
       to |-> sunday,
       driver |-> mine[1].driver,
       earnings |-> Round(SumEarnings(mine), 1),
       orders_count |-> SumOrders(mine),
       batches_count |-> Len(mine),
       status |-> "pending"]

GenerateWeeklyPayouts(forDate) ==
  LET monday == startOfMonday(forDate)
      sunday == endOfSunday(monday)
      inRange == SelectSeq(load("batches", <<>>),
                           LAMBDA b : InRange(b, monday, sunday))
      ids == DriverKeys(inRange, <<>>)
      pays == load("payouts", <<>>)
  IN  /\ \E rnds \in Draws(Len(ids), pays) :
           LET out == [i \in 1..Len(ids) |->
                         NewPayout(ids[i], inRange, monday, sunday, rnds[i])]
           IN  /\ payouts' = pays \o out
               /\ ret' = Returned(TRUE, out, NoId)
      /\ Saved({"payouts"})
      /\ call' = [op |-> "generateWeeklyPayouts", arg |-> <<forDate>>]
      /\ UNCHANGED <<build, now, orders, drivers, batches, aside, tabs>>

MarkPayoutPaid(payoutId) ==
  LET pays == load("payouts", <<>>)
      idx == FindIndex({j \in DOMAIN pays : pays[j].id = payoutId})
  IN  /\ call' = [op |-> "markPayoutPaid", arg |-> payoutId]
      /\ IF idx > 0
         THEN /\ payouts' = [pays EXCEPT ![idx].status = "paid"]
              /\ Saved({"payouts"})
              /\ ret' = Returned(TRUE, <<>>, NoId)
         ELSE /\ ret' = Returned(FALSE, <<>>, NoId)
              /\ UNCHANGED <<payouts, unparseable>>
      /\ UNCHANGED <<build, now, orders, drivers, batches, aside, tabs>>

(***************************** the clock ***********************************)
Tick ==
  /\ now < MaxClock
  /\ now' = now + 1
  /\ UNCHANGED <<build, orders, drivers, batches, payouts, call, ret,
                 aside, unparseable, tabs>>

(***************************** specification *******************************)
\* The identifiers an operator types at a prompt: every identifier stored in
\* the collection, and one that no record carries (all absent identifiers
\* take the same path through findIndex).
UnknownOrderId == SuffixModulus
UnknownId == <<SuffixModulus, 0>>
OrderIds == {orders[i].orderId : i \in DOMAIN orders} \cup {UnknownOrderId}
BatchIds == {batches[i].id : i \in DOMAIN batches} \cup {UnknownId}
PayoutIds == {payouts[i].id : i \in DOMAIN payouts} \cup {UnknownId}

NoResult == [driverTotal |-> -1, platformDeliveryMargin |-> -1]
NoLabel == [year |-> -1, week |-> -1]

\* the browser tabs that run the script over the one localStorage, and a tab
\* in which no call is under way
Tabs == {1, 2}
IdleTab ==
  [pc |-> "idle", arg |-> <<>>, orders |-> <<>>, batches |-> <<>>,
   created |-> <<>>]

Init ==
  /\ build \in Builds
  /\ now = 0
  /\ orders = <<>>
  /\ drivers = <<>>
  /\ batches = <<>>
  /\ payouts = <<>>
  /\ call = [op |-> "none", arg |-> <<>>]
  /\ ret = Returned(TRUE, <<>>, NoId)
  /\ ceN = 0
  /\ ceFee = 0
  /\ ceOut = NoResult
  /\ wlDate = 0
  /\ wlOut = NoLabel
  /\ unparseable = {}
  /\ tabs = [t \in Tabs |-> IdleTab]

\* the number of batches autoAssign() would create, and of payouts
\* generateWeeklyPayouts(forDate) would create, in the current state
BatchesDue ==
  IF load("drivers", <<>>) = <<>> THEN 0
  ELSE Len(GroupKeys(Candidates(load("orders", <<>>)), <<>>))

PayoutsDue(forDate) ==
  LET monday == startOfMonday(forDate)
  IN  Len(DriverKeys(SelectSeq(load("batches", <<>>),
            LAMBDA b : InRange(b, monday, endOfSunday(monday))), <<>>))

\* The collections only grow; an operation that would take one beyond its
\* bound is not explored.
Next ==
  \/ Tick
  \/ /\ Len(orders) < MaxOrders
     /\ \E p \in Payloads, st \in InitialStatuses :
          MakeWhatsAppLink(p.zone, p.address, p.baseFee, p.rushFee, st)
  \/ \E id \in OrderIds : ApproveOrder(id)
  \/ \E id \in OrderIds : MarkOrderPaid(id)
  \/ /\ Len(drivers) < MaxDrivers
     /\ \E z \in Zones : AddDriver(z)
  \/ /\ Len(batches) + BatchesDue <= MaxBatches
     /\ AutoAssign
  \/ \E id \in BatchIds : CompleteBatch(id)
  \/ \E d \in 0..MaxClock :
        /\ Len(payouts) + PayoutsDue(d) <= MaxPayouts
        /\ GenerateWeeklyPayouts(d)
  \/ \E id \in PayoutIds : MarkPayoutPaid(id)

Spec == Init /\ [][Next]_vars

(***************************** computeClusterEarnings alone ****************)
InitEarnings ==
  /\ build \in Builds
  /\ now = 0
  /\ orders = <<>>
  /\ drivers = <<>>
  /\ batches = <<>>
  /\ payouts = <<>>
  /\ call = [op |-> "none", arg |-> <<>>]
  /\ ret = Returned(TRUE, <<>>, NoId)
  /\ ceN \in 1..MaxN
  /\ ceFee \in 0..MaxFee
  /\ ceOut = NoResult
  /\ wlDate = 0
  /\ wlOut = NoLabel
  /\ unparseable = {}
  /\ tabs = [t \in Tabs |-> IdleTab]

ComputeEarnings ==
  /\ ceOut = NoResult
  /\ ceOut' = computeClusterEarnings(ceN, ceFee)
  /\ call' = [op |-> "computeClusterEarnings", arg |-> <<ceN, ceFee>>]
  /\ UNCHANGED <<build, now, orders, drivers, batches, payouts, ret,
                 ceN, ceFee, wlDate, wlOut, unparseable, tabs>>

NextEarnings == ComputeEarnings

SpecEarnings == InitEarnings /\ [][NextEarnings]_vars

(***************************** several drivers, repeated payouts ***********)
\* The same operations with room for a second driver and a second payout
\* record; to make that room the carts are of two kinds only and are stored
\* as paid (the lite build stores awaiting_payment and marks them paid).
PaidPayloads ==
  { [zone |-> "A", address |-> <<"E">>, baseFee |-> 13, rushFee |-> 0],
    [zone |-> "B", address |-> <<>>,    baseFee |-> 13, rushFee |-> 30] }

NextPayouts ==
  \/ Tick
  \/ /\ Len(orders) < MaxOrders
     /\ \E p \in PaidPayloads :
          MakeWhatsAppLink(p.zone, p.address, p.baseFee, p.rushFee, "paid")
  \/ /\ build = "lite"
     /\ \E id \in OrderIds \ {UnknownOrderId} : MarkOrderPaid(id)
  \/ /\ Len(drivers) < MoreDrivers
     /\ \E z \in Zones : AddDriver(z)
  \/ /\ Len(batches) + BatchesDue <= MaxBatches
     /\ AutoAssign
  \/ \E id \in BatchIds \ {UnknownId} : CompleteBatch(id)
  \/ \E d \in 0..MaxClock :
        /\ Len(payouts) + PayoutsDue(d) <= MorePayouts
        /\ GenerateWeeklyPayouts(d)
  \/ \E id \in PayoutIds \ {UnknownId} : MarkPayoutPaid(id)

SpecPayouts == Init /\ [][NextPayouts]_vars

(***************************** the week label alone ************************)
\* A date is held as its local calendar day, counted from Thursday
\* 1 January 1970; the time of day plays no part in the label.
IsLeapYear(y) == (y % 4 = 0 /\ y % 100 # 0) \/ y % 400 = 0

DaysInYear(y) == IF IsLeapYear(y) THEN 366 ELSE 365

\* the calendar year of day d and the days gone by in it, counting from
\* 1 January of year y, d days before
RECURSIVE YearAndDay(_, _)
YearAndDay(y, d) ==
  IF d < DaysInYear(y) THEN [year |-> y, day |-> d]
  ELSE YearAndDay(y + 1, d - DaysInYear(y))

getFullYear(d) == YearAndDay(1970, d).year

\* Date.prototype.getDay: 0 is Sunday
getDay(d) == (d + 4) % 7

\* pro lines 247-248, lite startOfMonday: back to the Monday of the week
MondayOf(d) == d - ((getDay(d) + 6) % 7)

\* new Date(monday.getFullYear(), 0, 1)
onejan(monday) == monday - YearAndDay(1970, monday).day

\* Math.ceil of num/den for num >= 0
Ceil(num, den) == (num + den - 1) \div den

\* Math.ceil((((monday - onejan) / 86400000) + onejan.getDay() + 1) / 7)
week(monday) ==
  Ceil((monday - onejan(monday)) + getDay(onejan(monday)) + 1, 7)

\* `${monday.getFullYear()}-W${week}`, held as the pair of year and week
WeekLabelOf(monday) == [year |-> getFullYear(monday), week |-> week(monday)]

InitWeek ==
  /\ build \in Builds
  /\ now = 0
  /\ orders = <<>>
  /\ drivers = <<>>
  /\ batches = <<>>
  /\ payouts = <<>>
  /\ call = [op |-> "none", arg |-> <<>>]
  /\ ret = Returned(TRUE, <<>>, NoId)
  /\ ceN = 0
  /\ ceFee = 0
  /\ ceOut = NoResult
  /\ wlDate \in FirstDay..LastDay
  /\ wlOut = NoLabel
  /\ unparseable = {}
  /\ tabs = [t \in Tabs |-> IdleTab]

ComputeWeekLabel ==
  /\ wlOut = NoLabel
  /\ wlOut' = WeekLabelOf(MondayOf(wlDate))
  /\ call' = [op |-> "weekLabel", arg |-> <<wlDate>>]
  /\ UNCHANGED <<build, now, orders, drivers, batches, payouts, ret,
                 ceN, ceFee, ceOut, wlDate, unparseable, tabs>>

NextWeek == ComputeWeekLabel

SpecWeek == InitWeek /\ [][NextWeek]_vars

(***************************** the lifecycle under fairness ****************)
\* autoAssign() is invoked again and again, and completeBatch is eventually
\* invoked with the identifier of every batch that is still assigned.  Carts
\* are submitted in different milliseconds here, so every order has its own
\* identifier and autoAssign creates at most one batch per order.
RunAutoAssign == AutoAssign

RunCompleteBatch(k) ==
  /\ k \in DOMAIN batches
  /\ batches[k].status = "assigned"
  /\ CompleteBatch(batches[k].id)

NextLive ==
  \/ Tick
  \/ /\ Len(orders) < MaxOrders
     /\ \A u \in DOMAIN orders : orders[u].orderId # uuid(now)
     /\ \E p \in PaidPayloads :
          MakeWhatsAppLink(p.zone, p.address, p.baseFee, p.rushFee, "paid")
  \/ \E id \in OrderIds \ {UnknownOrderId} : MarkOrderPaid(id)
  \/ /\ Len(drivers) < MaxDrivers
     /\ \E z \in Zones : AddDriver(z)
  \/ RunAutoAssign
  \/ \E k \in 1..MaxBatches : RunCompleteBatch(k)

SpecLive ==
  /\ Init
  /\ [][NextLive]_vars
  /\ WF_vars(RunAutoAssign)
  /\ \A k \in 1..MaxBatches : WF_vars(RunCompleteBatch(k))

(***************************** a store that holds malformed text ***********)
\* localStorage is shared with every other script of the origin: text that
\* JSON.parse rejects appears under key k
Garble(k) ==
  /\ k \notin unparseable
  /\ unparseable' = unparseable \cup {k}
  /\ call' = [op |-> "setItem", arg |-> <<>>]
  /\ UNCHANGED <<build, now, store, ret, aside, tabs>>

\* one cart and one driver zone are enough here: what matters is which
\* collections parse
NextStore ==
  \/ \E k \in KEYS : Garble(k)
  \/ /\ Len(load("orders", <<>>)) < MaxOrders
     /\ MakeWhatsAppLink("A", <<"E">>, 13, 0, "paid")
  \/ MarkOrderPaid(uuid(now))
  \/ /\ Len(load("drivers", <<>>)) < MaxDrivers
     /\ AddDriver("A")
  \/ /\ Len(load("batches", <<>>)) + BatchesDue <= MaxBatches
     /\ AutoAssign
  \/ \E id \in BatchIds \ {UnknownId} : CompleteBatch(id)
  \/ /\ Len(load("payouts", <<>>)) + PayoutsDue(now) <= MaxPayouts
     /\ GenerateWeeklyPayouts(now)
  \/ \E id \in PayoutIds \ {UnknownId} : MarkPayoutPaid(id)

SpecStore == Init /\ [][NextStore]_vars

(***************************** two tabs on one store ***********************)
\* autoAssign and completeBatch step by step, run by two tabs of the same
\* origin that share localStorage.  A tab's step is one access to the store
\* with the synchronous code that follows it; tabs[t] holds the tab's local
\* orders, batches and created arrays and the place it has reached.

\* faulty variant of LoadedOrders: the orders are read again when the
\* clusters are built
ReloadedOrders(t) == load("orders", <<>>)

\* const orders (pro line 170): the copy the tab loaded
LoadedOrders(t) == tabs[t].orders

\* pro line 170 / lite line 157
AALoadOrders(t) ==
  /\ tabs[t].pc = "idle"
  /\ tabs' = [tabs EXCEPT ![t] = [IdleTab EXCEPT !.pc = "aaLoaded",
                                                 !.orders = load("orders", <<>>)]]
  /\ UNCHANGED <<build, now, store, call, ret, aside, unparseable>>

\* pro lines 171-219: the batches are loaded and the loop runs on the copies
AACompute(t) ==
  /\ tabs[t].pc = "aaLoaded"
  /\ \E ords \in {LoadedOrders(t)}, bats \in {load("batches", <<>>)} :
     \E cands \in {Candidates(ords)} :
     \E keys \in {GroupKeys(cands, <<>>)} :
     \E rnds \in Draws(Len(keys), bats) :
     \E st \in {AssignLoop(keys, 1, cands, rnds,
                  [orders |-> ords, batches |-> bats, created |-> <<>>])} :
       tabs' = [tabs EXCEPT ![t] = [pc |-> "aaComputed", arg |-> <<>>,
                                    orders |-> st.orders,
                                    batches |-> st.batches,
                                    created |-> st.created]]
  /\ UNCHANGED <<build, now, store, call, ret, aside, unparseable>>

\* pro line 221
AASaveOrders(t) ==
  /\ tabs[t].pc = "aaComputed"
  /\ orders' = tabs[t].orders
  /\ Saved({"orders"})
  /\ tabs' = [tabs EXCEPT ![t].pc = "aaSavedOrders"]
  /\ UNCHANGED <<build, now, drivers, batches, payouts, call, ret, aside>>

\* pro lines 222-224
AASaveBatches(t) ==
  /\ tabs[t].pc = "aaSavedOrders"
  /\ batches' = tabs[t].batches
  /\ Saved({"batches"})
  /\ call' = [op |-> "autoAssign", arg |-> <<>>]
  /\ ret' = Returned(TRUE, tabs[t].created, NoId)
  /\ tabs' = [tabs EXCEPT ![t] = IdleTab]
  /\ UNCHANGED <<build, now, orders, drivers, payouts, aside>>

\* pro line 228
CBLoadOrders(t, batchId) ==
  /\ tabs[t].pc = "idle"
  /\ tabs' = [tabs EXCEPT ![t] = [IdleTab EXCEPT !.pc = "cbLoaded",
                                                 !.arg = batchId,
                                                 !.orders = load("orders", <<>>)]]
  /\ UNCHANGED <<build, now, store, call, ret, aside, unparseable>>

\* pro lines 229-238
CBCompute(t) ==
  /\ tabs[t].pc = "cbLoaded"
  /\ LET bats == load("batches", <<>>)
         bIdx == BatchIndex(bats, tabs[t].arg)
     IN  IF bIdx = 0
         THEN /\ tabs' = [tabs EXCEPT ![t] = IdleTab]
              /\ call' = [op |-> "completeBatch", arg |-> tabs[t].arg]
              /\ ret' = Returned(FALSE, <<>>, NoId)
         ELSE /\ tabs' = [tabs EXCEPT
                            ![t].pc = "cbComputed",
                            ![t].orders = MarkDelivered(tabs[t].orders,
                                                        bats[bIdx].orders),
                            ![t].batches = [bats EXCEPT
                                              ![bIdx] = Completed(bats[bIdx])]]
              /\ UNCHANGED <<call, ret>>
  /\ UNCHANGED <<build, now, store, aside, unparseable>>

\* pro line 240
CBSaveOrders(t) ==
  /\ tabs[t].pc = "cbComputed"
  /\ orders' = tabs[t].orders
  /\ Saved({"orders"})
  /\ tabs' = [tabs EXCEPT ![t].pc = "cbSavedOrders"]
  /\ UNCHANGED <<build, now, drivers, batches, payouts, call, ret, aside>>

\* pro lines 241-243
CBSaveBatches(t) ==
  /\ tabs[t].pc = "cbSavedOrders"
  /\ batches' = tabs[t].batches
  /\ Saved({"batches"})
  /\ call' = [op |-> "completeBatch", arg |-> tabs[t].arg]
  /\ ret' = Returned(TRUE, <<>>, NoId)
  /\ tabs' = [tabs EXCEPT ![t] = IdleTab]
  /\ UNCHANGED <<build, now, orders, drivers, payouts, aside>>

\* localStorage.setItem throws (the quota is exceeded) in the second save:
\* the exception leaves the function, the orders stay saved
SecondSaveThrows(t) ==
  /\ tabs[t].pc \in {"aaSavedOrders", "cbSavedOrders"}
  /\ call' = [op |-> IF tabs[t].pc = "aaSavedOrders" THEN "autoAssign"
                     ELSE "completeBatch",
              arg |-> tabs[t].arg]
  /\ ret' = Returned(FALSE, <<>>, NoId)
  /\ tabs' = [tabs EXCEPT ![t] = IdleTab]
  /\ UNCHANGED <<build, now, store, aside, unparseable>>

\* the clock stands still and a cart is submitted only in a millisecond in
\* which none was, so that every order has its own identifier
NextTabs ==
  \/ /\ Len(orders) < MaxOrders
     /\ \A u \in DOMAIN orders : orders[u].orderId # uuid(now)
     /\ \A t \in Tabs : tabs[t].pc = "idle"
     /\ MakeWhatsAppLink("A", <<"E">>, 13, 0, "paid")
  \/ /\ build = "lite"
     /\ \A t \in Tabs : tabs[t].pc = "idle"
     /\ \E i \in DOMAIN orders :
          orders[i].status = "awaiting_payment" /\ MarkOrderPaid(orders[i].orderId)
  \/ /\ Len(drivers) < MaxDrivers
     /\ orders = <<>>
     /\ AddDriver("A")
  \/ \E t \in Tabs : AALoadOrders(t)
  \/ \E t \in Tabs : AACompute(t)
  \/ \E t \in Tabs : AASaveOrders(t)
  \/ \E t \in Tabs : AASaveBatches(t)
  \/ \E t \in Tabs, k \in DOMAIN batches : CBLoadOrders(t, batches[k].id)
  \/ \E t \in Tabs : CBCompute(t)
  \/ \E t \in Tabs : CBSaveOrders(t)
  \/ \E t \in Tabs : CBSaveBatches(t)
  \/ \E t \in Tabs : SecondSaveThrows(t)

SpecTabs == Init /\ [][NextTabs]_vars

(***************************** claims **************************************)
\* a step in which operation op is called: every operation records itself in
\* call and leaves the clock alone, and Tick changes the clock only
Called(op) == call'.op = op /\ now' = now

PaidUnassigned(o) == o.status = "paid" /\ o.assigned_batch_id = NoBatch

\* the set of identifiers a batch lists
Listed(b) == {b.orders[m] : m \in DOMAIN b.orders}

\* C1: every order that is paid and has no batch reference before an
\* autoAssign() run is, after it, assigned with a batch reference naming a
\* batch the run returned, unless no driver is resolved for its zone, and then
\* the order record is unchanged.
C1_PaidOrdersAssigned ==
  [][Called("autoAssign") =>
       \A i \in DOMAIN orders :
         PaidUnassigned(orders[i]) =>
           IF pickDriverForZone(orders[i].zone) = NoDriver
           THEN orders'[i] = orders[i]
           ELSE /\ orders'[i].status = "assigned"
                /\ orders'[i].assigned_batch_id # NoBatch
                /\ \E j \in DOMAIN ret'.list :
                     ret'.list[j].id = orders'[i].assigned_batch_id]_vars

\* no other order carries the identifier of order i
OwnIdentifier(ords, i) ==
  \A k \in DOMAIN ords : ords[k].orderId = ords[i].orderId => k = i

SharesIdWithEligible(ords, i) ==
  \E k \in DOMAIN ords :
    /\ ords[k].orderId = ords[i].orderId
    /\ ords[k].status \in {"paid", "approved"}
    /\ ords[k].assigned_batch_id = NoBatch

C3_AutoAssignIdempotent ==
  [][(call.op = "autoAssign" /\ Called("autoAssign")) =>
       /\ ret'.list = <<>>
       /\ orders' = orders
       /\ batches' = batches]_vars

\* the places (batch, position) at which the batches bats list identifier id
Places(bats, id) ==
  {p \in (DOMAIN bats) \X (1..MaxOrders) :
     p[2] \in DOMAIN bats[p[1]].orders /\ bats[p[1]].orders[p[2]] = id}

\* C4: no order identifier is listed twice (in two batches or twice in one),
\* and a batch reference, once set, never changes.
C4_AtMostOneBatch ==
  [][/\ \A i \in DOMAIN orders' : Cardinality(Places(batches', orders'[i].orderId)) <= 1
     /\ \A i \in DOMAIN orders :
          orders[i].assigned_batch_id # NoBatch =>
            orders'[i].assigned_batch_id = orders[i].assigned_batch_id]_vars

\* C5: every order with a batch reference has status assigned or delivered.
C5_BatchedOrderStatus ==
  \A i \in DOMAIN orders :
    orders[i].assigned_batch_id # NoBatch =>
      orders[i].status \in {"assigned", "delivered"}

\* C6: in every batch, driver earnings plus platform margin is the number of
\* orders times the per-order fee.
C6_EarningsSum ==
  \A i \in DOMAIN batches :
    batches[i].driver_earnings + batches[i].platform_delivery_margin
      = Len(batches[i].orders) * batches[i].delivery_fee_each

\* C6 witness: a batch of two orders whose driver share was rounded
C6_Witness ==
  \E i \in DOMAIN batches :
    /\ Len(batches[i].orders) = 2
    /\ batches[i].delivery_fee_each = 13
    /\ batches[i].driver_earnings = 18
    /\ batches[i].platform_delivery_margin = 8

\* C7: driverTotal is fee * 1.00 + max(0, n-1) * fee * 0.40 rounded half up
\* (d - 1/2 <= x < d + 1/2, in tenths), platformMargin is n * fee - driverTotal
\* rounded half up; (1,100) gives (100,0), (3,100) gives (180,120), fee 0
\* gives (0,0).
C7_EarningsFormula ==
  ceOut # NoResult =>
    LET d == ceOut.driverTotal
        m == ceOut.platformDeliveryMargin
        k == IF ceN > 1 THEN ceN - 1 ELSE 0
        x10 == 10 * ceFee + 4 * k * ceFee
    IN  /\ 10 * d - 5 <= x10 /\ x10 < 10 * d + 5
        /\ 2 * m - 1 <= 2 * (ceN * ceFee - d) /\ 2 * (ceN * ceFee - d) < 2 * m + 1
        /\ d \in Nat /\ m \in Nat
        /\ (ceN = 1 /\ ceFee = 100) => (d = 100 /\ m = 0)
        /\ (ceN = 3 /\ ceFee = 100) => (d = 180 /\ m = 120)
        /\ ceFee = 0 => (d = 0 /\ m = 0)

\* C7 witness: computeClusterEarnings(3, 100) has returned
C7_Witness ==
  ceN = 3 /\ ceFee = 100 /\ ceOut # NoResult /\ ceOut.driverTotal = 180

\* C8: completeBatch on the identifier of an existing batch returns true and
\* leaves that batch completed with a completion time and every order whose
\* identifier it lists delivered.
C8_CompleteBatchDelivers ==
  [][(Called("completeBatch")
        /\ \E k \in DOMAIN batches : batches[k].id = call'.arg) =>
       /\ ret'.ok = TRUE
       /\ \E k \in DOMAIN batches' :
            /\ batches'[k].id = call'.arg
            /\ batches'[k].status = "completed"
            /\ batches'[k].completed_at # NoTime
            /\ \A i \in DOMAIN orders' :
                 orders'[i].orderId \in Listed(batches'[k]) =>
                   orders'[i].status = "delivered"]_vars

\* a step that calls an operation with an identifier its collection lacks
NotFoundCall ==
  /\ now' = now
  /\ \/ /\ call'.op = "completeBatch"
        /\ \A k \in DOMAIN batches : batches[k].id # call'.arg
     \/ /\ call'.op \in {"markOrderPaid", "approveOrder"}
        /\ \A i \in DOMAIN orders : <<orders[i].orderId>> # call'.arg
     \/ /\ call'.op = "markPayoutPaid"
        /\ \A i \in DOMAIN payouts : payouts[i].id # call'.arg

\* C9: an operation given an absent identifier returns false and leaves the
\* four collections unchanged.
C9_NotFoundNoChange ==
  [][NotFoundCall => (ret'.ok = FALSE /\ UNCHANGED store)]_vars

\* C9 witness: completeBatch has reported not-found while batches exist
C9_Witness ==
  /\ call.op = "completeBatch"
  /\ ret.ok = FALSE
  /\ batches # <<>>
  /\ orders # <<>>

\* C10: a completed batch stays in the collection and stays completed.
C10_CompletionOneWay ==
  [][\A i \in DOMAIN batches :
       batches[i].status = "completed" =>
         /\ i \in DOMAIN batches'
         /\ batches'[i].id = batches[i].id
         /\ batches'[i].status = "completed"]_vars

\* C10 witness: autoAssign() has created a batch beside a completed one
C10_Witness ==
  /\ call.op = "autoAssign"
  /\ ret.list # <<>>
  /\ \E i \in DOMAIN batches : batches[i].status = "completed"

\* the completeBatch target: the first batch carrying the identifier given,
\* 0 when no batch carries it
Target(bats, id) ==
  IF \E k \in DOMAIN bats : bats[k].id = id
  THEN CHOOSE k \in DOMAIN bats :
         bats[k].id = id /\ \A h \in 1..(k - 1) : bats[h].id # id
  ELSE 0

\* C11: completeBatch(b) changes only batch b and the orders whose identifier
\* b lists; every other order, every other batch, the drivers and the payouts
\* are the same after the call as before.
C11_CompleteBatchFrame ==
  [][Called("completeBatch") =>
       LET b == Target(batches, call'.arg)
       IN  /\ DOMAIN orders' = DOMAIN orders
           /\ DOMAIN batches' = DOMAIN batches
           /\ \A k \in DOMAIN batches : k # b => batches'[k] = batches[k]
           /\ \A i \in DOMAIN orders :
                (b = 0 \/ orders[i].orderId \notin Listed(batches[b])) =>
                  orders'[i] = orders[i]
           /\ UNCHANGED <<drivers, payouts>>]_vars

\* C11 witness: completeBatch has completed one batch while another batch is
\* still assigned and an order that the completed batch does not list is
\* still assigned
C11_Witness ==
  /\ call.op = "completeBatch"
  /\ ret.ok
  /\ \E k \in DOMAIN batches :
       /\ batches[k].id = call.arg
       /\ batches[k].status = "completed"
       /\ \E h \in DOMAIN batches : batches[h].status = "assigned"
       /\ \E i \in DOMAIN orders :
            /\ orders[i].orderId \notin Listed(batches[k])
            /\ orders[i].status = "assigned"

\* the batches (indices) that are completed with a completion time in the
\* week of date d
CompletedInWeek(bats, d) ==
  {k \in DOMAIN bats :
     /\ bats[k].status = "completed"
     /\ bats[k].completed_at \div WeekLen = d \div WeekLen}

RECURSIVE EarningsOf(_, _)
EarningsOf(bats, ks) ==
  IF ks = {} THEN 0
  ELSE LET k == CHOOSE x \in ks : TRUE
       IN  bats[k].driver_earnings + EarningsOf(bats, ks \ {k})

RECURSIVE OrdersOf(_, _)
OrdersOf(bats, ks) ==
  IF ks = {} THEN 0
  ELSE LET k == CHOOSE x \in ks : TRUE
       IN  Len(bats[k].orders) + OrdersOf(bats, ks \ {k})

\* C12: generateWeeklyPayouts(d) returns exactly one payout, pending, for each
\* driver identifier with a batch completed in the week of d and none for any
\* other; its earnings, batches_count and orders_count are the sum of
\* driver_earnings, the number and the summed order-list lengths of exactly
\* those batches of that driver.
C12_PayoutPerDriver ==
  [][Called("generateWeeklyPayouts") =>
       LET sel == CompletedInWeek(batches, call'.arg[1])
           ids == {batches[k].driver.id : k \in sel}
           out == ret'.list
       IN  /\ \A id \in ids :
                Cardinality({j \in DOMAIN out : out[j].driver.id = id}) = 1
           /\ \A j \in DOMAIN out :
                LET mine == {k \in sel : batches[k].driver.id = out[j].driver.id}
                IN  /\ out[j].driver.id \in ids
                    /\ out[j].status = "pending"
                    /\ out[j].earnings = EarningsOf(batches, mine)
                    /\ out[j].batches_count = Cardinality(mine)
                    /\ out[j].orders_count = OrdersOf(batches, mine)]_vars

\* C12 witness: a payout was returned that counts one of two completed
\* batches of its driver, the other lying outside the week
C12_Witness ==
  /\ call.op = "generateWeeklyPayouts"
  /\ \E j \in DOMAIN ret.list :
       /\ ret.list[j].batches_count = 1
       /\ ret.list[j].earnings > 0
       /\ Cardinality({k \in DOMAIN batches :
             /\ batches[k].status = "completed"
             /\ batches[k].driver.id = ret.list[j].driver.id}) = 2

\* C13: the payout collection never holds two records with the same driver
\* identifier and the same week label.
C13_OnePayoutPerDriverWeek ==
  \A i, j \in DOMAIN payouts :
    (/\ payouts[i].driver.id = payouts[j].driver.id
     /\ payouts[i].week_label = payouts[j].week_label) => i = j

\* two payout records agree in everything but their identifier
SamePayout(p, q) ==
  /\ p.driver = q.driver
  /\ p.week_label = q.week_label
  /\ p.earnings = q.earnings
  /\ p.orders_count = q.orders_count
  /\ p.batches_count = q.batches_count

\* C14: generateWeeklyPayouts called again for the same week directly after a
\* call returns a payout for every driver the first call returned one for
\* (same week label, earnings and counts); the collection grows by that many
\* records and every stored payout is kept unchanged.
C14_PayoutsNotDeduplicated ==
  [][(/\ call.op = "generateWeeklyPayouts"
      /\ Called("generateWeeklyPayouts")
      /\ call'.arg[1] \div WeekLen = call.arg[1] \div WeekLen) =>
       /\ \A j \in DOMAIN ret.list :
            \E h \in DOMAIN ret'.list : SamePayout(ret.list[j], ret'.list[h])
       /\ Len(payouts') = Len(payouts) + Len(ret.list)
       /\ \A i \in DOMAIN payouts : payouts'[i] = payouts[i]]_vars

\* C14 witness: a second generateWeeklyPayouts has stored a second record
\* for the driver and week of the first
C14_Witness ==
  /\ call.op = "generateWeeklyPayouts"
  /\ Len(payouts) = 2
  /\ Len(ret.list) = 1
  /\ SamePayout(payouts[1], payouts[2])
  /\ ret.list[1] = payouts[2]

\* the drivers (indices) that are active and in zone
ActiveIn(zone) ==
  {d \in DOMAIN drivers : drivers[d].is_active /\ drivers[d].zone = zone}

\* C15: the driver of a batch is the first driver in directory order that is
\* active and in the batch's zone, or the first driver of the directory when
\* there is none; autoAssign() creates no batch when the directory is empty,
\* and otherwise a batch for the cluster of every eligible order.
C15_DriverResolution ==
  [][Called("autoAssign") =>
       LET out == ret'.list
       IN  /\ \A j \in DOMAIN out :
                LET match == ActiveIn(out[j].zone)
                IN  /\ drivers # <<>>
                    /\ out[j].driver =
                         IF match # {}
                         THEN drivers[CHOOSE d \in match : \A e \in match : d <= e]
                         ELSE drivers[1]
           /\ drivers = <<>> => out = <<>>
           /\ drivers # <<>> =>
                \A i \in DOMAIN orders :
                  Eligible(orders[i]) =>
                    \E j \in DOMAIN out :
                      /\ out[j].cluster_key = clusterKey(orders[i])
                      /\ orders[i].orderId \in Listed(out[j])]_vars

\* C15 witness: autoAssign() has given a batch to the second driver of the
\* directory, the first one in the batch's zone, and an earlier batch went to
\* a driver of another zone for want of one in its own
C15_Witness ==
  /\ call.op = "autoAssign"
  /\ Len(drivers) = 2
  /\ \E j \in DOMAIN ret.list :
       /\ ret.list[j].driver = drivers[2]
       /\ drivers[1].zone # ret.list[j].zone
  /\ \E k \in DOMAIN batches : batches[k].driver.zone # batches[k].zone

\* C16: no step changes the driver snapshot, the order list, the per-order
\* fee, the driver earnings or the platform margin of a stored batch, nor the
\* driver snapshot or the earnings of a stored payout.
C16_EarningsHistoryImmutable ==
  [][/\ \A k \in DOMAIN batches :
          /\ k \in DOMAIN batches'
          /\ batches'[k].driver = batches[k].driver
          /\ batches'[k].orders = batches[k].orders
          /\ batches'[k].delivery_fee_each = batches[k].delivery_fee_each
          /\ batches'[k].driver_earnings = batches[k].driver_earnings
          /\ batches'[k].platform_delivery_margin
               = batches[k].platform_delivery_margin
     /\ \A p \in DOMAIN payouts :
          /\ p \in DOMAIN payouts'
          /\ payouts'[p].driver = payouts[p].driver
          /\ payouts'[p].earnings = payouts[p].earnings]_vars

\* C16 witness: a batch that went to a driver of another zone has been
\* completed and paid out after a driver of its own zone joined the directory
C16_Witness ==
  /\ call.op = "markPayoutPaid"
  /\ ret.ok
  /\ Len(drivers) = 2
  /\ \E k \in DOMAIN batches :
       /\ batches[k].status = "completed"
       /\ batches[k].driver = drivers[1]
       /\ drivers[1].zone # batches[k].zone
       /\ drivers[2].zone = batches[k].zone
       /\ batches[k].started_at < batches[k].completed_at
       /\ \E p \in DOMAIN payouts :
            payouts[p].status = "paid" /\ payouts[p].driver = drivers[1]

\* C17: in an autoAssign() run with a driver in the directory, two eligible
\* orders end in the same batch exactly if they have the same cluster key
\* (zone and lower-cased, whitespace-collapsed, trimmed address, or zone and
\* zone-only when that is empty): "E" and "e " of one zone share a batch, and
\* every order of a batch has the batch's cluster key.
C17_ClusterGrouping ==
  [][(Called("autoAssign") /\ drivers # <<>>) =>
       /\ \A i, j \in DOMAIN orders :
            (Eligible(orders[i]) /\ Eligible(orders[j])) =>
              /\ orders'[i].assigned_batch_id # NoBatch
              /\ (orders'[i].assigned_batch_id = orders'[j].assigned_batch_id)
                   <=> (clusterKey(orders[i]) = clusterKey(orders[j]))
              /\ (/\ orders[i].zone = orders[j].zone
                  /\ orders[i].address = <<"E">>
                  /\ orders[j].address = <<"e", " ">>) =>
                   orders'[i].assigned_batch_id = orders'[j].assigned_batch_id
       /\ \A b \in DOMAIN ret'.list :
            /\ \A i \in DOMAIN orders :
                 (Eligible(orders[i]) /\ orders'[i].assigned_batch_id = ret'.list[b].id) =>
                   clusterKey(orders[i]) = ret'.list[b].cluster_key
            /\ \A i \in DOMAIN orders :
                 (Eligible(orders[i]) /\ orders[i].address = <<>>) =>
                   clusterKey(orders[i]) = <<orders[i].zone, ZoneOnly>>]_vars

\* no two records of a collection carry the same identifier
UniqueIds(coll) ==
  \A i, j \in DOMAIN coll : coll[i].id = coll[j].id => i = j

\* C18: no two orders share an orderId, no two batches an id, no two payouts
\* an id, and the identifier of a stored record never changes.
C18_IdentifiersUnique ==
  [][/\ \A i, j \in DOMAIN orders' :
          orders'[i].orderId = orders'[j].orderId => i = j
     /\ UniqueIds(batches')
     /\ UniqueIds(payouts')
     /\ \A i \in DOMAIN orders : orders'[i].orderId = orders[i].orderId
     /\ \A k \in DOMAIN batches : batches'[k].id = batches[k].id
     /\ \A p \in DOMAIN payouts : payouts'[p].id = payouts[p].id]_vars

\* C19 (as stated): the status of every stored order is one of pending,
\* awaiting_payment, paid, assigned, delivered.
C19_FiveStatuses ==
  \A i \in DOMAIN orders :
    orders[i].status \in
      {"pending", "awaiting_payment", "paid", "assigned", "delivered"}

\* C19 (amended): the status of every stored order is the initialStatus its
\* makeWhatsAppLink call was given (pending unless the caller says otherwise;
\* awaiting_payment in the lite build), or one of approved, paid, assigned,
\* delivered.
C19_StatusValues ==
  \A i \in DOMAIN orders :
    orders[i].status \in
      (IF build = "pro" THEN InitialStatuses ELSE {"awaiting_payment"})
        \cup {"approved", "paid", "assigned", "delivered"}

\* C19 witness: an approved order is stored beside a delivered one
C19_Witness ==
  /\ \E i \in DOMAIN orders : orders[i].status = "approved"
  /\ \E i \in DOMAIN orders : orders[i].status = "delivered"

\* C20: autoAssign() with an empty driver directory creates no batch and
\* leaves the orders as they are; the autoAssign() run that follows the
\* adding of a driver leaves every order that was paid without batch
\* reference assigned to a batch that lists it.
C20_RetryAfterDriverAdded ==
  [][Called("autoAssign") =>
       /\ drivers = <<>> =>
            /\ ret'.list = <<>>
            /\ batches' = batches
            /\ orders' = orders
       /\ call.op = "addDriver" =>
            \A i \in DOMAIN orders :
              PaidUnassigned(orders[i]) =>
                /\ orders'[i].status = "assigned"
                /\ \E k \in DOMAIN batches' :
                     /\ batches'[k].id = orders'[i].assigned_batch_id
                     /\ orders[i].orderId \in Listed(batches'[k])]_vars

\* C25: for every batch and every identifier it lists there is a stored order
\* with that identifier whose batch reference is the batch's id, and every
\* order with a batch reference names a stored batch that lists it.
C25_ReferentialIntegrity ==
  /\ \A k \in DOMAIN batches :
       \A id \in Listed(batches[k]) :
         \E i \in DOMAIN orders :
           /\ orders[i].orderId = id
           /\ orders[i].assigned_batch_id = batches[k].id
  /\ \A i \in DOMAIN orders :
       orders[i].assigned_batch_id # NoBatch =>
         \E k \in DOMAIN batches :
           /\ batches[k].id = orders[i].assigned_batch_id
           /\ orders[i].orderId \in Listed(batches[k])

\* C26: every delivered order has a batch reference, and the batch it names
\* is completed.
C26_DeliveredOnlyByCompletion ==
  \A i \in DOMAIN orders :
    orders[i].status = "delivered" =>
      /\ orders[i].assigned_batch_id # NoBatch
      /\ \A k \in DOMAIN batches :
           batches[k].id = orders[i].assigned_batch_id =>
             batches[k].status = "completed"

\* C27: completeBatch on a batch that is already completed leaves its
\* completion time as it was.
C27_CompletedAtSetOnce ==
  [][Called("completeBatch") =>
       \A k \in DOMAIN batches :
         batches[k].status = "completed" =>
           batches'[k].completed_at = batches[k].completed_at]_vars

\* the ISO 8601 week of day d: the week belongs to the year of its Thursday
\* and is numbered by that Thursday's place in the year
IsoLabel(d) ==
  LET thursday == YearAndDay(1970, MondayOf(d) + 3)
  IN  [year |-> thursday.year, week |-> (thursday.day \div 7) + 1]

\* C22: the week label of a payout is the ISO year and ISO week of the
\* Monday-to-Sunday week that contains the reference date.
C22_IsoWeekLabel ==
  wlOut # NoLabel => wlOut = IsoLabel(wlDate)

\* C28: with a driver in the directory, autoAssign() invoked repeatedly and
\* completeBatch eventually invoked on every assigned batch, every order that
\* is paid with no batch reference is eventually delivered.
C28_PaidOrdersDelivered ==
  \A i \in 1..MaxOrders :
    (/\ i \in DOMAIN orders
     /\ PaidUnassigned(orders[i])
     /\ drivers # <<>>)
      ~> (i \in DOMAIN orders /\ orders[i].status = "delivered")


\* what an operation has to take collection k for: nothing when the stored
\* text does not parse
Seen(k) ==
  IF k \in unparseable THEN <<>>
  ELSE CASE k = "orders" -> orders
         [] k = "drivers" -> drivers
         [] k = "batches" -> batches
         [] OTHER -> payouts

\* C21: when the text stored for a collection does not parse, autoAssign,
\* completeBatch, markOrderPaid, generateWeeklyPayouts and markPayoutPaid
\* return what they return on an empty collection and write what they write
\* on an empty collection: autoAssign finds no candidate without orders,
\* starts from no batch without batches and skips every cluster without
\* drivers; completeBatch and markPayoutPaid find nothing and write nothing;
\* markOrderPaid finds nothing and writes nothing; generateWeeklyPayouts
\* creates no payout without batches and stores only the new payouts without
\* payouts.
C21_UnparseableAsEmpty ==
  [][ /\ (Called("autoAssign") /\ "orders" \in unparseable) =>
          /\ ret'.ok /\ ret'.list = <<>>
          /\ orders' = <<>> /\ batches' = Seen("batches")
      /\ (Called("autoAssign") /\ "batches" \in unparseable) =>
          /\ ret'.ok /\ batches' = ret'.list
      /\ (Called("autoAssign") /\ "drivers" \in unparseable) =>
          /\ ret'.ok /\ ret'.list = <<>>
          /\ orders' = Seen("orders") /\ batches' = Seen("batches")
      /\ (Called("completeBatch") /\ "batches" \in unparseable) =>
          /\ ~ret'.ok /\ UNCHANGED <<store, unparseable>>
      /\ (Called("completeBatch") /\ "orders" \in unparseable /\ ret'.ok) =>
          /\ orders' = <<>>
      /\ (Called("markOrderPaid") /\ "orders" \in unparseable) =>
          /\ ~ret'.ok /\ UNCHANGED <<store, unparseable>>
      /\ (Called("generateWeeklyPayouts") /\ "batches" \in unparseable) =>
          /\ ret'.ok /\ ret'.list = <<>> /\ payouts' = Seen("payouts")
      /\ (Called("generateWeeklyPayouts") /\ "payouts" \in unparseable) =>
          /\ ret'.ok /\ payouts' = ret'.list
      /\ (Called("markPayoutPaid") /\ "payouts" \in unparseable) =>
          /\ ~ret'.ok /\ UNCHANGED <<store, unparseable>>
    ]_vars

\* markOrderPaid was called with the identifier of an order last saved, the
\* stored text for the orders does not parse, and the call found nothing
C21_Witness ==
  /\ call.op = "markOrderPaid"
  /\ "orders" \in unparseable
  /\ ~ret.ok
  /\ \E i \in DOMAIN orders : <<orders[i].orderId>> = call.arg

\* C23: in every state of the store other tabs can read, also between the
\* two saves of autoAssign or completeBatch and after a second save that
\* failed, an order's batch reference names a stored batch, and no delivered
\* order names a batch that is still assigned.
C23_NoPartialWrite ==
  \A i \in DOMAIN orders :
    /\ orders[i].assigned_batch_id # NoBatch =>
         \E k \in DOMAIN batches : batches[k].id = orders[i].assigned_batch_id
    /\ orders[i].status = "delivered" =>
         ~ \E k \in DOMAIN batches :
               /\ batches[k].id = orders[i].assigned_batch_id
               /\ batches[k].status = "assigned"

\* C24: an autoAssign() execution builds its clusters from the orders it
\* loaded, whatever has been saved since: every order that is eligible in
\* the tab's copy and has a driver is listed in a batch the tab creates.  So
\* two executions that both load before either saves both batch the order.
C24_AssignsFromLoadedCopy ==
  [][\A t \in Tabs :
       (tabs[t].pc = "aaLoaded" /\ tabs'[t].pc = "aaComputed") =>
         \A i \in DOMAIN tabs[t].orders :
           (/\ Eligible(tabs[t].orders[i])
            /\ pickDriverForZone(tabs[t].orders[i].zone) # NoDriver) =>
             \E m \in DOMAIN tabs'[t].created :
               tabs[t].orders[i].orderId \in Listed(tabs'[t].created[m])
    ]_vars

\* the store lists one order, whose identifier no other order carries, in
\* two batches with different identifiers
C24_Witness ==
  \E i \in DOMAIN orders :
    /\ \A u \in DOMAIN orders : u # i => orders[u].orderId # orders[i].orderId
    /\ \E k, h \in DOMAIN batches :
         /\ batches[k].id # batches[h].id
         /\ orders[i].orderId \in Listed(batches[k])
         /\ orders[i].orderId \in Listed(batches[h])
====
